---------------------------- MODULE Spec2Model ----------------------------
(***************************************************************************)
(* LineLog (src/log.c): an append-only line log with a line-count bound.   *)
(*                                                                         *)
(* The model follows log.c statement by statement.  A call is cut into     *)
(* steps at the places where another thread, or the file system, can see   *)
(* an intermediate state: the unlocked handle check, the lock, and every   *)
(* file-system call of the truncation pass.                                *)
(*                                                                         *)
(* A file is a sequence of physical lines.  A line is <<id, part>>: id is  *)
(* the number of the log_write call that produced it, part is "whole" for  *)
(* a record that fits one fgets buffer, "long" for a record that does not  *)
(* (vsnprintf lets the message fill BUFFER_SIZE - 1 characters and fprintf *)
(* adds the 22-character timestamp prefix and the newline, while fgets     *)
(* returns at most BUFFER_SIZE - 1 characters), and "tail" for what is     *)
(* left of a long record once its first buffer-full has been cut off.      *)
(* Messages hold no line break of their own (spec section 6 sets those     *)
(* aside as a documented limitation).                                      *)
(*                                                                         *)
(* Environment: malloc, fopen, pthread_mutex_init, remove and rename can   *)
(* fail, and so can the pthread_mutex_lock of log_init; at most MaxFaults  *)
(* such failures are drawn in one behaviour.  Writes to an open stream     *)
(* succeed.  A use of a NULL stream is undefined behaviour: the process    *)
(* dies (crashed), or the call fails and execution goes on.                *)
(*                                                                         *)
(* A stream stays on the file it was opened on when that file is renamed   *)
(* or unlinked; the temporary file "tmp.log" is one name in the working    *)
(* directory, whichever LineLog runs the pass.                             *)
(***************************************************************************)
EXTENDS Integers, Sequences, FiniteSets, TLC

(***************************************************************************)
(* Bounds of the model.                                                    *)
(***************************************************************************)
NThreads == 2
MaxWrites == 3
MaxTruncate == 2
MaxFaults == 1
MaxInits == 2

Threads == 1 .. NThreads
AllLogs == {"a.log", "b.log"}
TmpName == "tmp.log"
FileNames == AllLogs \cup {TmpName}
Unbounded == 0 - 1
TruncateChoices == {Unbounded} \cup (0 .. MaxTruncate)
MsgKinds == {"short", "long"}

\* MAX_FILENAME_LENGTH is defined in log.h; line 27 only compares strlen with
\* it, so the model takes a small value and path lengths on both sides of it.
MAX_FILENAME_LENGTH == 3
PathLens == (MAX_FILENAME_LENGTH - 1) .. (MAX_FILENAME_LENGTH + 1)

VARIABLES
    active,        \* the LineLog instances the callers use
    ptr,           \* the caller's log_t * per instance: "null", "live", "dangling"
    mem,           \* the malloc'ed structure: "none", "live", "freed"
    file,          \* log->file: "null", "open", "closed" (fclosed, pointer kept)
    truncate_at,   \* log->truncate_at
    cached_lines,  \* log->cached_lines
    mutex,         \* log->lock: "uninit", "init", "destroyed"
    owner,         \* the thread holding log->lock, 0 when free
    disk,          \* the directory: name -> [ex, data]
    pc,            \* each thread's position
    cur,           \* the instance the thread's call is on
    last,          \* the call that returned last: [l, op, res, why]
    lines,         \* log_init's local int lines
    tmp,           \* the local FILE *tmp: "null", "open", "closed"
    tmpat,         \* the name the file behind tmp has now, "gone" once unlinked
    tmpbuf,        \* the stdio buffer of tmp (reaches the disk at fclose)
    msg,           \* the kind of message of the call in progress
    reg,           \* the value of log->cached_lines read by log_write, line 169
    stepfail,      \* history: the remove or rename that failed in this call
    had,           \* history of the call: cached_lines (c) and the file's line
                   \* count (n) before the append, the lines its pass is to keep (w)
    crashed,       \* the process died on undefined behaviour
    faults,        \* environment failures drawn so far
    nwrites,       \* records appended so far (the next record's id - 1)
    ninits,        \* log_init calls so far
    misuse,        \* resource misuses seen (double fclose, double free, ...)
    pre,           \* history: the file's lines when the current log_init began
    sess,          \* history: the records appended since the current log_init
    allok          \* history: no log_write returned an error since log_init

vars == <<active, ptr, mem, file, truncate_at, cached_lines, mutex, owner, disk,
          pc, cur, last, lines, tmp, tmpat, tmpbuf, msg, reg, stepfail, had, crashed,
          faults, nwrites, ninits, misuse, pre, sess, allok>>

(***************************************************************************)
(* stdio and the file system.                                              *)
(***************************************************************************)
NoFile == [ex |-> FALSE, data |-> <<>>]

\* fgets(line, sizeof(line), f): the buffers one line is read in.
Chunks(ln) ==
    IF ln[2] = "long" THEN << <<ln[1], "head">>, <<ln[1], "tail">> >> ELSE <<ln>>

\* The successive results of fgets from the start of the file to EOF.
RECURSIVE FGetsAll(_)
FGetsAll(data) ==
    IF data = <<>> THEN <<>> ELSE Chunks(Head(data)) \o FGetsAll(Tail(data))

\* fprintf(tmp, "%s", line) for each buffer in turn: the physical lines written.
RECURSIVE FPrintfAll(_)
FPrintfAll(chunks) ==
    IF chunks = <<>> THEN <<>>
    ELSE IF Head(chunks)[2] = "head" /\ Len(chunks) >= 2
         THEN << <<Head(chunks)[1], "long">> >> \o FPrintfAll(Tail(Tail(chunks)))
         ELSE <<Head(chunks)>> \o FPrintfAll(Tail(chunks))

\* The copy loop: the buffers with index i >= skip, i counting from 0.
CopyLoop(data, skip) ==
    LET all == FGetsAll(data)
        from == IF skip < 0 THEN 1 ELSE skip + 1
    IN  SubSeq(all, from, Len(all))

\* fopen(name, "a+"): the file is created when absent.
FOpenAppend(d, name) ==
    IF d[name].ex THEN d ELSE [d EXCEPT ![name] = [ex |-> TRUE, data |-> <<>>]]

\* fopen(name, "w"): the file is created or cut to length 0.
FOpenWrite(d, name) == [d EXCEPT ![name] = [ex |-> TRUE, data |-> <<>>]]

\* remove(name)
Remove(d, name) == [d EXCEPT ![name] = NoFile]

\* rename(from, to): replaces to; fails when from does not exist.
Rename(d, from, to) ==
    IF d[from].ex THEN [d EXCEPT ![to] = d[from], ![from] = NoFile] ELSE d

\* A stream opened with "w" writes at its own offset, from 0 on: what it
\* flushes replaces the start of what another stream has put in the same
\* file (lines of one length, the case of records of one size).
Overlay(old, new) ==
    IF Len(new) >= Len(old) THEN new
    ELSE new \o SubSeq(old, Len(new) + 1, Len(old))

\* fclose(tmp): the buffer goes to the file the stream was opened on, under
\* the name that file has by now; nowhere once the file is unlinked.
Flush(d, at, new) ==
    IF at \in FileNames /\ d[at].ex
    THEN [d EXCEPT ![at].data = Overlay(@, new)] ELSE d

\* Where the open tmp streams point after remove(name) ...
Unlinked(at, name) ==
    [u \in DOMAIN at |-> IF at[u] = name THEN "gone" ELSE at[u]]

\* ... and after rename(from, to).
Renamed(at, d, from, to) ==
    IF d[from].ex
    THEN [u \in DOMAIN at |-> IF at[u] = from THEN to
                              ELSE IF at[u] = to THEN "gone" ELSE at[u]]
    ELSE at

\* The record one log_write appends.
Record(id, kind) == <<id, IF kind = "long" THEN "long" ELSE "whole">>

(***************************************************************************)
(* log_count_lines, lines 218-233.                                         *)
(***************************************************************************)
CountLines(l) ==
    IF file[l] = "null" THEN 0 - 1 ELSE Len(FGetsAll(disk[l].data))

NoHad == [c |-> 0, n |-> 0, w |-> <<>>]
\* The lines a pass is meant to keep: the last K of the file it starts on.
Window(data, K) ==
    IF Len(data) > K THEN SubSeq(data, Len(data) - K + 1, Len(data)) ELSE data
Busy(l) == \E t \in Threads : pc[t] # "idle" /\ cur[t] = l
CanFault == faults < MaxFaults
\* A return: the call's locals go out of scope.
Ret(t, l, op, res, why) ==
    /\ pc' = [pc EXCEPT ![t] = "idle"]
    /\ last' = [l |-> l, op |-> op, res |-> res,
                why |-> IF why = "ok" THEN stepfail[t] ELSE why]
    /\ stepfail' = [stepfail EXCEPT ![t] = "ok"]
    /\ reg' = [reg EXCEPT ![t] = 0]
    /\ had' = [had EXCEPT ![t] = NoHad]
    /\ lines' = [lines EXCEPT ![t] = 0]
    /\ tmp' = [tmp EXCEPT ![t] = "null"]
    /\ tmpat' = [tmpat EXCEPT ![t] = "none"]
    /\ tmpbuf' = [tmpbuf EXCEPT ![t] = <<>>]
    /\ msg' = [msg EXCEPT ![t] = "short"]

InitCommon ==
    /\ ptr = [l \in AllLogs |-> "null"]
    /\ mem = [l \in AllLogs |-> "none"]
    /\ file = [l \in AllLogs |-> "null"]
    /\ truncate_at = [l \in AllLogs |-> Unbounded]
    /\ cached_lines = [l \in AllLogs |-> 0]
    /\ mutex = [l \in AllLogs |-> "uninit"]
    /\ owner = [l \in AllLogs |-> 0]
    /\ disk = [n \in FileNames |-> NoFile]
    /\ pc = [t \in Threads |-> "idle"]
    /\ cur = [t \in Threads |-> "a.log"]
    /\ last = [l |-> "a.log", op |-> "none", res |-> 0, why |-> "none"]
    /\ stepfail = [t \in Threads |-> "ok"]
    /\ reg = [t \in Threads |-> 0]
    /\ had = [t \in Threads |-> NoHad]
    /\ lines = [t \in Threads |-> 0]
    /\ tmp = [t \in Threads |-> "null"]
    /\ tmpat = [t \in Threads |-> "none"]
    /\ tmpbuf = [t \in Threads |-> <<>>]
    /\ msg = [t \in Threads |-> "short"]
    /\ crashed = FALSE
    /\ nwrites = 0
    /\ ninits = 0
    /\ misuse = {}
    /\ pre = [l \in AllLogs |-> <<>>]
    /\ sess = [l \in AllLogs |-> <<>>]
    /\ allok = [l \in AllLogs |-> TRUE]

\* One LineLog, on "a.log".
Init == active = {"a.log"} /\ faults = 0 /\ InitCommon

\* Two LineLogs in one directory, on "a.log" and "b.log", in an environment
\* where no call fails.
InitTwo == active = AllLogs /\ faults = MaxFaults /\ InitCommon

(***************************************************************************)
(* Resource bookkeeping: what a call does to a resource in a given state.  *)
(* A release of something not held is recorded in misuse.                  *)
(***************************************************************************)
FClose(s) == IF s = "open" THEN {} ELSE {"fclose"}
Free(s) == IF s = "live" THEN {} ELSE {"free"}
Destroy(s) == IF s = "init" THEN {} ELSE {"destroy"}
Unlock(o, t) == IF o = t THEN {} ELSE {"unlock"}

(***************************************************************************)
(* log_init, lines 21-53 and 125-131: allocate, check the path, open the   *)
(* file, set up the lock; with truncation disabled, count and return.      *)
(***************************************************************************)
\* Mutant of line 27: a path of exactly the maximum length is let through.
TooLong_over(len) == len > MAX_FILENAME_LENGTH

\* Line 27: strlen(filename) >= MAX_FILENAME_LENGTH
TooLong(len) == len >= MAX_FILENAME_LENGTH

log_init_open(t, l, K, len) ==
    /\ ~crashed /\ pc[t] = "idle" /\ l \in active
    /\ ptr[l] # "live" /\ ~Busy(l)
    /\ ninits < MaxInits
    /\ ninits' = ninits + 1
    /\ cur' = [cur EXCEPT ![t] = l]
    /\ UNCHANGED <<active, owner, crashed, nwrites, misuse>>
    /\ \/ \* 23-24: malloc fails
          /\ CanFault /\ faults' = faults + 1
          /\ ptr' = [ptr EXCEPT ![l] = "null"]
          /\ Ret(t, l, "init", 0 - 1, "alloc")
          /\ UNCHANGED <<mem, file, truncate_at, cached_lines, mutex, disk,
                         pre, sess, allok>>
       \/ \* 27-32: the path is too long
          /\ TooLong(len)
          /\ ptr' = [ptr EXCEPT ![l] = "null"]
          /\ mem' = [mem EXCEPT ![l] = "freed"]
          /\ file' = [file EXCEPT ![l] = "null"]
          /\ mutex' = [mutex EXCEPT ![l] = "uninit"]
          /\ Ret(t, l, "init", 0 - 1, "path")
          /\ UNCHANGED <<truncate_at, cached_lines, disk, faults, pre, sess, allok>>
       \/ \* 36-42: fopen fails
          /\ ~TooLong(len)
          /\ CanFault /\ faults' = faults + 1
          /\ ptr' = [ptr EXCEPT ![l] = "null"]
          /\ mem' = [mem EXCEPT ![l] = "freed"]
          /\ file' = [file EXCEPT ![l] = "null"]
          /\ mutex' = [mutex EXCEPT ![l] = "uninit"]
          /\ Ret(t, l, "init", 0 - 1, "open")
          /\ UNCHANGED <<truncate_at, cached_lines, disk, pre, sess, allok>>
       \/ \* 47-53: pthread_mutex_init fails
          /\ ~TooLong(len)
          /\ CanFault /\ faults' = faults + 1
          /\ disk' = FOpenAppend(disk, l)
          /\ ptr' = [ptr EXCEPT ![l] = "null"]
          /\ mem' = [mem EXCEPT ![l] = "freed"]
          /\ file' = [file EXCEPT ![l] = "closed"]
          /\ mutex' = [mutex EXCEPT ![l] = "uninit"]
          /\ truncate_at' = [truncate_at EXCEPT ![l] = K]
          /\ Ret(t, l, "init", 0 - 1, "mutex")
          /\ UNCHANGED <<cached_lines, pre, sess, allok>>
       \/ \* 56, 125-131: the structure is set up
          /\ ~TooLong(len)
          /\ disk' = FOpenAppend(disk, l)
          /\ ptr' = [ptr EXCEPT ![l] = "live"]
          /\ mem' = [mem EXCEPT ![l] = "live"]
          /\ file' = [file EXCEPT ![l] = "open"]
          /\ mutex' = [mutex EXCEPT ![l] = "init"]
          /\ truncate_at' = [truncate_at EXCEPT ![l] = K]
          /\ pre' = [pre EXCEPT ![l] = disk[l].data]
          /\ sess' = [sess EXCEPT ![l] = <<>>]
          /\ allok' = [allok EXCEPT ![l] = TRUE]
          /\ UNCHANGED faults
          /\ IF K # Unbounded
             THEN /\ pc' = [pc EXCEPT ![t] = "i_lock"]
                  /\ cached_lines' = [cached_lines EXCEPT ![l] = 0]
                  /\ UNCHANGED <<last, lines, tmp, tmpat, tmpbuf, msg, reg, stepfail, had>>
             ELSE /\ cached_lines' =
                        [cached_lines EXCEPT ![l] = Len(FGetsAll(disk[l].data))]
                  /\ Ret(t, l, "init", 0, "ok")

(***************************************************************************)
(* log_init, lines 58-70 and 117-124: lock, count, and return when the     *)
(* file is within the bound.  pthread_mutex_lock cannot fail on a mutex    *)
(* that was just initialised; the failure is drawn here because log_init   *)
(* spells out its cleanup, and nowhere else.                               *)
(***************************************************************************)
log_init_lock(t) ==
    LET l == cur[t]
        n == CountLines(l)
    IN  /\ ~crashed /\ pc[t] = "i_lock"
        /\ UNCHANGED <<active, truncate_at, disk, cur, crashed, nwrites, ninits,
                       pre, sess, allok>>
        /\ \/ \* 59-66: the lock fails
              /\ CanFault /\ faults' = faults + 1
              /\ misuse' = misuse \cup Destroy(mutex[l]) \cup FClose(file[l])
                                  \cup Free(mem[l])
              /\ mutex' = [mutex EXCEPT ![l] = "destroyed"]
              /\ file' = [file EXCEPT ![l] = "closed"]
              /\ mem' = [mem EXCEPT ![l] = "freed"]
              /\ ptr' = [ptr EXCEPT ![l] = "null"]
              /\ Ret(t, l, "init", 0 - 1, "lock")
              /\ UNCHANGED <<owner, cached_lines>>
           \/ \* 69-70: more lines than the bound
              /\ owner[l] = 0
              /\ n > truncate_at[l]
              /\ owner' = [owner EXCEPT ![l] = t]
              /\ lines' = [lines EXCEPT ![t] = n]
              /\ pc' = [pc EXCEPT ![t] = "i_tmp"]
              /\ UNCHANGED <<reg, stepfail, had>>
              /\ UNCHANGED <<ptr, mem, file, cached_lines, mutex, last, faults,
                             misuse, tmp, tmpat, tmpbuf, msg>>
           \/ \* 117-124: within the bound
              /\ owner[l] = 0
              /\ ~(n > truncate_at[l])
              /\ cached_lines' = [cached_lines EXCEPT ![l] = n]
              /\ Ret(t, l, "init", 0, "ok")
              /\ UNCHANGED <<ptr, mem, file, mutex, owner, faults, misuse>>

\* Mutant of lines 74-82: the failure branch does not close the log file.
log_init_tmp_leak(t) ==
    LET l == cur[t]
    IN  /\ ~crashed /\ pc[t] = "i_tmp"
        /\ UNCHANGED <<active, truncate_at, cached_lines, cur, crashed, nwrites,
                       ninits, pre, sess, allok>>
        /\ \/ /\ CanFault /\ faults' = faults + 1
              /\ misuse' = misuse \cup Unlock(owner[l], t) \cup Destroy(mutex[l])
                                  \cup Free(mem[l])
              /\ owner' = [owner EXCEPT ![l] = 0]
              /\ mutex' = [mutex EXCEPT ![l] = "destroyed"]
              /\ mem' = [mem EXCEPT ![l] = "freed"]
              /\ ptr' = [ptr EXCEPT ![l] = "null"]
              /\ Ret(t, l, "init", 0 - 1, "tmp")
              /\ UNCHANGED <<disk, file>>
           \/ /\ disk' = FOpenWrite(disk, TmpName)
              /\ tmp' = [tmp EXCEPT ![t] = "open"]
              /\ tmpat' = [tmpat EXCEPT ![t] = TmpName]
              /\ had' = [had EXCEPT ![t].w = Window(disk[l].data, truncate_at[l])]
              /\ pc' = [pc EXCEPT ![t] = "i_copy"]
              /\ UNCHANGED <<reg, stepfail>>
              /\ UNCHANGED <<ptr, mem, file, mutex, owner, last, faults, misuse,
                             lines, tmpbuf, msg>>

\* log_init, lines 73-82: open the temporary file.
log_init_tmp(t) ==
    LET l == cur[t]
    IN  /\ ~crashed /\ pc[t] = "i_tmp"
        /\ UNCHANGED <<active, truncate_at, cached_lines, cur, crashed, nwrites,
                       ninits, pre, sess, allok>>
        /\ \/ /\ CanFault /\ faults' = faults + 1
              /\ misuse' = misuse \cup Unlock(owner[l], t) \cup Destroy(mutex[l])
                                  \cup FClose(file[l]) \cup Free(mem[l])
              /\ owner' = [owner EXCEPT ![l] = 0]
              /\ mutex' = [mutex EXCEPT ![l] = "destroyed"]
              /\ file' = [file EXCEPT ![l] = "closed"]
              /\ mem' = [mem EXCEPT ![l] = "freed"]
              /\ ptr' = [ptr EXCEPT ![l] = "null"]
              /\ Ret(t, l, "init", 0 - 1, "tmp")
              /\ UNCHANGED disk
           \/ /\ disk' = FOpenWrite(disk, TmpName)
              /\ tmp' = [tmp EXCEPT ![t] = "open"]
              /\ tmpat' = [tmpat EXCEPT ![t] = TmpName]
              /\ had' = [had EXCEPT ![t].w = Window(disk[l].data, truncate_at[l])]
              /\ pc' = [pc EXCEPT ![t] = "i_copy"]
              /\ UNCHANGED <<reg, stepfail>>
              /\ UNCHANGED <<ptr, mem, file, mutex, owner, last, faults, misuse,
                             lines, tmpbuf, msg>>

\* log_init, lines 85-93: copy the trailing lines - truncate_at buffers.
log_init_copy(t) ==
    LET l == cur[t]
    IN  /\ ~crashed /\ pc[t] = "i_copy"
        /\ tmpbuf' = [tmpbuf EXCEPT ![t] =
                         CopyLoop(disk[l].data, lines[t] - truncate_at[l])]
        /\ pc' = [pc EXCEPT ![t] = "i_close"]
        /\ UNCHANGED <<reg, stepfail, had>>
        /\ UNCHANGED <<active, ptr, mem, file, truncate_at, cached_lines, mutex,
                       owner, disk, cur, last, lines, tmp, tmpat, msg, crashed, faults,
                       nwrites, ninits, misuse, pre, sess, allok>>

\* log_init, lines 95-96: close both files; tmp's buffer reaches the disk.
log_init_close(t) ==
    LET l == cur[t]
    IN  /\ ~crashed /\ pc[t] = "i_close"
        /\ misuse' = misuse \cup FClose(file[l]) \cup FClose(tmp[t])
        /\ file' = [file EXCEPT ![l] = "closed"]
        /\ tmp' = [tmp EXCEPT ![t] = "closed"]
        /\ tmpat' = [tmpat EXCEPT ![t] = "none"]
        /\ disk' = Flush(disk, tmpat[t], FPrintfAll(tmpbuf[t]))
        /\ tmpbuf' = [tmpbuf EXCEPT ![t] = <<>>]
        /\ pc' = [pc EXCEPT ![t] = "i_remove"]
        /\ UNCHANGED <<reg, stepfail, had>>
        /\ UNCHANGED <<active, ptr, mem, truncate_at, cached_lines, mutex, owner,
                       cur, last, lines, msg, crashed, faults, nwrites, ninits,
                       pre, sess, allok>>

\* log_init, line 99: remove the old log; the result is not looked at.
log_init_remove(t) ==
    LET l == cur[t]
    IN  /\ ~crashed /\ pc[t] = "i_remove"
        /\ \/ /\ disk' = Remove(disk, l)
              /\ tmpat' = Unlinked(tmpat, l)
              /\ UNCHANGED <<faults, stepfail>>
           \/ /\ CanFault /\ faults' = faults + 1 /\ UNCHANGED <<disk, tmpat>>
              /\ stepfail' = [stepfail EXCEPT ![t] = "remove"]
        /\ pc' = [pc EXCEPT ![t] = "i_rename"]
        /\ UNCHANGED <<reg, had>>
        /\ UNCHANGED <<active, ptr, mem, file, truncate_at, cached_lines, mutex,
                       owner, cur, last, lines, tmp, tmpbuf, msg, crashed,
                       nwrites, ninits, misuse, pre, sess, allok>>

\* log_init, line 102: rename the temporary file; the result is not looked at.
log_init_rename(t) ==
    LET l == cur[t]
    IN  /\ ~crashed /\ pc[t] = "i_rename"
        /\ \/ /\ disk' = Rename(disk, TmpName, l)
              /\ tmpat' = Renamed(tmpat, disk, TmpName, l)
              /\ UNCHANGED <<faults, stepfail>>
           \/ /\ CanFault /\ faults' = faults + 1 /\ UNCHANGED <<disk, tmpat>>
              /\ stepfail' = [stepfail EXCEPT ![t] = "rename"]
        /\ pc' = [pc EXCEPT ![t] = "i_reopen"]
        /\ UNCHANGED <<reg, had>>
        /\ UNCHANGED <<active, ptr, mem, file, truncate_at, cached_lines, mutex,
                       owner, cur, last, lines, tmp, tmpbuf, msg, crashed,
                       nwrites, ninits, misuse, pre, sess, allok>>

\* log_init, lines 105-123: reopen the log, set the count, unlock.
log_init_reopen(t) ==
    LET l == cur[t]
    IN  /\ ~crashed /\ pc[t] = "i_reopen"
        /\ UNCHANGED <<active, truncate_at, cur, crashed, nwrites, ninits, pre,
                       sess, allok>>
        /\ \/ /\ CanFault /\ faults' = faults + 1
              /\ misuse' = misuse \cup Unlock(owner[l], t) \cup Destroy(mutex[l])
                                  \cup Free(mem[l])
              /\ owner' = [owner EXCEPT ![l] = 0]
              /\ mutex' = [mutex EXCEPT ![l] = "destroyed"]
              /\ file' = [file EXCEPT ![l] = "null"]
              /\ mem' = [mem EXCEPT ![l] = "freed"]
              /\ ptr' = [ptr EXCEPT ![l] = "null"]
              /\ Ret(t, l, "init", 0 - 1, "reopen")
              /\ UNCHANGED <<cached_lines, disk>>
           \/ /\ disk' = FOpenAppend(disk, l)
              /\ file' = [file EXCEPT ![l] = "open"]
              /\ cached_lines' = [cached_lines EXCEPT ![l] = truncate_at[l]]
              /\ misuse' = misuse \cup Unlock(owner[l], t)
              /\ owner' = [owner EXCEPT ![l] = 0]
              /\ Ret(t, l, "init", 0, "ok")
              /\ UNCHANGED <<ptr, mem, mutex, faults>>

InitPcs == {"i_lock", "i_tmp", "i_copy", "i_close", "i_remove", "i_rename", "i_reopen"}
Initing(l) == \E t \in Threads : cur[t] = l /\ pc[t] \in InitPcs

(***************************************************************************)
(* log_write, lines 136-139: the two checks made before the lock is taken. *)
(***************************************************************************)
log_write_check(t, l, kind) ==
    /\ ~crashed /\ pc[t] = "idle" /\ l \in active
    /\ ptr[l] \in {"null", "live"} /\ ~Initing(l)
    /\ nwrites < MaxWrites
    /\ cur' = [cur EXCEPT ![t] = l]
    /\ UNCHANGED <<active, ptr, mem, file, truncate_at, cached_lines, mutex, owner,
                   disk, crashed, faults, nwrites, ninits, misuse, pre, sess>>
    /\ IF ptr[l] = "null"
       THEN Ret(t, l, "write", 0 - 1, "nolog") /\ UNCHANGED allok
       ELSE IF file[l] = "null"
       THEN /\ Ret(t, l, "write", 0 - 1, "nofile")
            /\ allok' = [allok EXCEPT ![l] = FALSE]
       ELSE /\ pc' = [pc EXCEPT ![t] = "w_lock"]
            /\ msg' = [msg EXCEPT ![t] = kind]
            /\ UNCHANGED <<last, allok, lines, tmp, tmpat, tmpbuf, reg, stepfail, had>>

\* Mutant of line 142: the writer goes on without waiting for the lock.
log_write_lock_nowait(t) ==
    LET l == cur[t]
    IN  /\ ~crashed /\ pc[t] = "w_lock"
        /\ owner' = [owner EXCEPT ![l] = t]
        /\ pc' = [pc EXCEPT ![t] = "w_append"]
        /\ UNCHANGED <<active, ptr, mem, file, truncate_at, cached_lines, mutex,
                       disk, cur, last, lines, tmp, tmpat, tmpbuf, msg, reg, stepfail, had,
                       crashed, faults, nwrites, ninits, misuse, pre, sess, allok>>

\* Mutant of line 142: the lock is taken only while no pass is running.
log_write_lock_early(t) ==
    LET l == cur[t]
    IN  /\ ~crashed /\ pc[t] = "w_lock"
        /\ \/ owner[l] = 0
           \/ \E o \in Threads :
                 owner[l] = o /\ pc[o] \in {"w_remove", "w_rename", "w_reopen"}
        /\ owner' = [owner EXCEPT ![l] = t]
        /\ pc' = [pc EXCEPT ![t] = "w_append"]
        /\ UNCHANGED <<active, ptr, mem, file, truncate_at, cached_lines, mutex,
                       disk, cur, last, lines, tmp, tmpat, tmpbuf, msg, reg, stepfail, had,
                       crashed, faults, nwrites, ninits, misuse, pre, sess, allok>>

\* log_write, line 142: pthread_mutex_lock blocks until the lock is free.
log_write_lock(t) ==
    LET l == cur[t]
    IN  /\ ~crashed /\ pc[t] = "w_lock"
        /\ owner[l] = 0
        /\ owner' = [owner EXCEPT ![l] = t]
        /\ pc' = [pc EXCEPT ![t] = "w_append"]
        /\ UNCHANGED <<reg, stepfail, had>>
        /\ UNCHANGED <<active, ptr, mem, file, truncate_at, cached_lines, mutex,
                       disk, cur, last, lines, tmp, tmpat, tmpbuf, msg, crashed, faults,
                       nwrites, ninits, misuse, pre, sess, allok>>

(***************************************************************************)
(* log_write, lines 145-166: format the record, append it, flush, fsync.   *)
(* With log->file NULL (a reopen that failed in another writer after this  *)
(* writer's check) fprintf is undefined: the process dies, or the call     *)
(* fails and execution goes on.                                            *)
(***************************************************************************)
log_write_append(t) ==
    LET l == cur[t]
    IN  /\ ~crashed /\ pc[t] = "w_append"
        /\ UNCHANGED <<active, ptr, mem, file, truncate_at, cached_lines, mutex,
                       owner, cur, last, lines, tmp, tmpat, tmpbuf, msg, reg, stepfail,
                       faults, ninits, misuse, pre, allok>>
        /\ \/ /\ file[l] = "null"
              /\ crashed' = TRUE
              /\ UNCHANGED <<disk, pc, nwrites, sess, had>>
           \/ /\ crashed' = FALSE
              /\ had' = [had EXCEPT ![t] = [c |-> cached_lines[l],
                                            n |-> Len(disk[l].data),
                                            w |-> <<>>]]
              /\ IF file[l] = "null"
                 THEN UNCHANGED <<disk, nwrites, sess>>
                 ELSE /\ disk' = [disk EXCEPT ![l].data =
                                     Append(@, Record(nwrites + 1, msg[t]))]
                      /\ nwrites' = nwrites + 1
                      /\ sess' = [sess EXCEPT ![l] =
                                     Append(@, Record(nwrites + 1, msg[t]))]
              /\ pc' = [pc EXCEPT ![t] = "w_load"]

\* log_write, line 169: log->cached_lines is read.
log_write_load(t) ==
    LET l == cur[t]
    IN  /\ ~crashed /\ pc[t] = "w_load"
        /\ reg' = [reg EXCEPT ![t] = cached_lines[l]]
        /\ pc' = [pc EXCEPT ![t] = "w_count"]
        /\ UNCHANGED <<active, ptr, mem, file, truncate_at, cached_lines, mutex,
                       owner, disk, cur, last, lines, tmp, tmpat, tmpbuf, msg, stepfail,
                       had, crashed, faults, nwrites, ninits, misuse, pre, sess,
                       allok>>

\* Line 169: the count after the increment.
NewCount(c) == IF c # 0 - 1 THEN c + 1 ELSE c

\* Mutant of line 172: the pass starts one line late.
NeedsTruncate_late(c, K) == K # Unbounded /\ c > K + 1

\* Line 172: the test that starts a truncation pass.
NeedsTruncate(c, K) == K # Unbounded /\ c > K

(***************************************************************************)
(* log_write, lines 169-172 and 212-215: store the count and return unless *)
(* the bound is exceeded.                                                  *)
(***************************************************************************)
log_write_count(t) ==
    LET l == cur[t]
        c == NewCount(reg[t])
    IN  /\ ~crashed /\ pc[t] = "w_count"
        /\ cached_lines' = [cached_lines EXCEPT ![l] = c]
        /\ UNCHANGED <<active, ptr, mem, file, truncate_at, mutex, disk, cur,
                       crashed, faults, nwrites, ninits, pre, sess, allok>>
        /\ IF NeedsTruncate(c, truncate_at[l])
           THEN /\ pc' = [pc EXCEPT ![t] = "w_tmp"]
                /\ reg' = [reg EXCEPT ![t] = 0]
                /\ UNCHANGED <<owner, last, misuse, lines, tmp, tmpat, tmpbuf, msg,
                               stepfail, had>>
           ELSE /\ misuse' = misuse \cup Unlock(owner[l], t)
                /\ owner' = [owner EXCEPT ![l] = 0]
                /\ Ret(t, l, "write", 0, "ok")

\* log_write, lines 175-180: open the temporary file.
log_write_tmp(t) ==
    LET l == cur[t]
    IN  /\ ~crashed /\ pc[t] = "w_tmp"
        /\ UNCHANGED <<active, ptr, mem, file, truncate_at, cached_lines, mutex,
                       cur, crashed, nwrites, ninits, pre, sess>>
        /\ \/ /\ CanFault /\ faults' = faults + 1
              /\ misuse' = misuse \cup Unlock(owner[l], t)
              /\ owner' = [owner EXCEPT ![l] = 0]
              /\ allok' = [allok EXCEPT ![l] = FALSE]
              /\ Ret(t, l, "write", 0 - 1, "tmp")
              /\ UNCHANGED disk
           \/ /\ disk' = FOpenWrite(disk, TmpName)
              /\ tmp' = [tmp EXCEPT ![t] = "open"]
              /\ tmpat' = [tmpat EXCEPT ![t] = TmpName]
              /\ had' = [had EXCEPT ![t].w = Window(disk[l].data, truncate_at[l])]
              /\ pc' = [pc EXCEPT ![t] = "w_copy"]
              /\ UNCHANGED <<reg, stepfail>>
              /\ UNCHANGED <<owner, last, faults, misuse, allok, lines, tmpbuf,
                             msg>>

(***************************************************************************)
(* log_write, lines 182-190: copy the trailing buffers, skipping the first *)
(* cached_lines - truncate_at.  rewind and fgets on a NULL stream are      *)
(* undefined: the process dies, or they fail and nothing is read.          *)
(***************************************************************************)
log_write_copy(t) ==
    LET l == cur[t]
    IN  /\ ~crashed /\ pc[t] = "w_copy"
        /\ UNCHANGED <<active, ptr, mem, file, truncate_at, cached_lines, mutex,
                       owner, disk, cur, last, lines, tmp, tmpat, msg, faults, nwrites,
                       ninits, misuse, pre, sess, allok>>
        /\ \/ /\ file[l] = "null"
              /\ crashed' = TRUE
              /\ UNCHANGED <<reg, stepfail, had>>
              /\ UNCHANGED <<pc, tmpbuf>>
           \/ /\ crashed' = FALSE
              /\ tmpbuf' = [tmpbuf EXCEPT ![t] =
                               IF file[l] = "null" THEN <<>>
                               ELSE CopyLoop(disk[l].data,
                                             cached_lines[l] - truncate_at[l])]
              /\ pc' = [pc EXCEPT ![t] = "w_close"]
              /\ UNCHANGED <<reg, stepfail, had>>

\* log_write, lines 193-194: close both files; tmp's buffer reaches the disk.
log_write_close(t) ==
    LET l == cur[t]
    IN  /\ ~crashed /\ pc[t] = "w_close"
        /\ UNCHANGED <<active, ptr, mem, truncate_at, cached_lines, mutex, owner,
                       cur, last, lines, msg, faults, nwrites, ninits, pre, sess,
                       allok>>
        /\ \/ /\ file[l] = "null"
              /\ crashed' = TRUE
              /\ UNCHANGED <<reg, stepfail, had>>
              /\ UNCHANGED <<file, tmp, tmpat, disk, tmpbuf, pc, misuse>>
           \/ /\ crashed' = FALSE
              /\ IF file[l] = "null"
                 THEN UNCHANGED file /\ misuse' = misuse \cup FClose(tmp[t])
                 ELSE /\ file' = [file EXCEPT ![l] = "closed"]
                      /\ misuse' = misuse \cup FClose(file[l]) \cup FClose(tmp[t])
              /\ tmp' = [tmp EXCEPT ![t] = "closed"]
              /\ tmpat' = [tmpat EXCEPT ![t] = "none"]
              /\ disk' = Flush(disk, tmpat[t], FPrintfAll(tmpbuf[t]))
              /\ tmpbuf' = [tmpbuf EXCEPT ![t] = <<>>]
              /\ pc' = [pc EXCEPT ![t] = "w_remove"]
              /\ UNCHANGED <<reg, stepfail, had>>

\* log_write, line 196: remove the old log; the result is not looked at.
log_write_remove(t) ==
    LET l == cur[t]
    IN  /\ ~crashed /\ pc[t] = "w_remove"
        /\ \/ /\ disk' = Remove(disk, l)
              /\ tmpat' = Unlinked(tmpat, l)
              /\ UNCHANGED <<faults, stepfail>>
           \/ /\ CanFault /\ faults' = faults + 1 /\ UNCHANGED <<disk, tmpat>>
              /\ stepfail' = [stepfail EXCEPT ![t] = "remove"]
        /\ pc' = [pc EXCEPT ![t] = "w_rename"]
        /\ UNCHANGED <<reg, had>>
        /\ UNCHANGED <<active, ptr, mem, file, truncate_at, cached_lines, mutex,
                       owner, cur, last, lines, tmp, tmpbuf, msg, crashed,
                       nwrites, ninits, misuse, pre, sess, allok>>

\* log_write, line 199: rename the temporary file; the result is not looked at.
log_write_rename(t) ==
    LET l == cur[t]
    IN  /\ ~crashed /\ pc[t] = "w_rename"
        /\ \/ /\ disk' = Rename(disk, TmpName, l)
              /\ tmpat' = Renamed(tmpat, disk, TmpName, l)
              /\ UNCHANGED <<faults, stepfail>>
           \/ /\ CanFault /\ faults' = faults + 1 /\ UNCHANGED <<disk, tmpat>>
              /\ stepfail' = [stepfail EXCEPT ![t] = "rename"]
        /\ pc' = [pc EXCEPT ![t] = "w_reopen"]
        /\ UNCHANGED <<reg, had>>
        /\ UNCHANGED <<active, ptr, mem, file, truncate_at, cached_lines, mutex,
                       owner, cur, last, lines, tmp, tmpbuf, msg, crashed,
                       nwrites, ninits, misuse, pre, sess, allok>>

\* log_write, lines 202-215: reopen the log, reset the count, unlock.
log_write_reopen(t) ==
    LET l == cur[t]
    IN  /\ ~crashed /\ pc[t] = "w_reopen"
        /\ UNCHANGED <<active, ptr, mem, truncate_at, mutex, cur, crashed, nwrites,
                       ninits, pre, sess>>
        /\ misuse' = misuse \cup Unlock(owner[l], t)
        /\ owner' = [owner EXCEPT ![l] = 0]
        /\ \/ /\ CanFault /\ faults' = faults + 1
              /\ file' = [file EXCEPT ![l] = "null"]
              /\ allok' = [allok EXCEPT ![l] = FALSE]
              /\ Ret(t, l, "write", 0 - 1, "reopen")
              /\ UNCHANGED <<cached_lines, disk>>
           \/ /\ disk' = FOpenAppend(disk, l)
              /\ file' = [file EXCEPT ![l] = "open"]
              /\ cached_lines' = [cached_lines EXCEPT ![l] = truncate_at[l]]
              /\ Ret(t, l, "write", 0, "ok")
              /\ UNCHANGED <<faults, allok>>

(***************************************************************************)
(* log_count_lines, lines 218-233, called while no other call is running   *)
(* on the instance (the caller's duty, spec section 5).                    *)
(***************************************************************************)
log_count_lines(t, l) ==
    /\ ~crashed /\ pc[t] = "idle" /\ l \in active
    /\ ptr[l] = "live" /\ ~Busy(l)
    /\ cur' = [cur EXCEPT ![t] = l]
    /\ Ret(t, l, "count", CountLines(l), "ok")
    /\ UNCHANGED <<active, ptr, mem, file, truncate_at, cached_lines, mutex, owner,
                   disk, crashed, faults, nwrites, ninits, misuse, pre, sess, allok>>

(***************************************************************************)
(* log_close, lines 235-251, called while no other call is running on the  *)
(* instance.  The pointer is passed by value: line 248 clears the callee's *)
(* copy, and the caller's pointer keeps pointing at the freed structure.   *)
(* A second log_close then reads log->file from freed memory, which is     *)
(* undefined: the process dies at the read; or the read yields the stale   *)
(* handle, lock, stream and structure are released a second time and the   *)
(* heap is corrupt from then on (nothing after that is modelled); or the   *)
(* read yields NULL and the call returns -1.                               *)
(***************************************************************************)
log_close(t, l) ==
    /\ ~crashed /\ pc[t] = "idle" /\ l \in active
    /\ ~Busy(l)
    /\ cur' = [cur EXCEPT ![t] = l]
    /\ UNCHANGED <<active, truncate_at, cached_lines, owner, disk, faults,
                   nwrites, ninits, pre, sess, allok>>
    /\ \/ \* 237: the handle is absent
          /\ ptr[l] = "null"
          /\ Ret(t, l, "close", 0 - 1, "nolog")
          /\ UNCHANGED <<ptr, mem, file, mutex, misuse, crashed>>
       \/ \* 240: the file handle is absent
          /\ ptr[l] = "live" /\ file[l] = "null"
          /\ Ret(t, l, "close", 0 - 1, "nofile")
          /\ UNCHANGED <<ptr, mem, file, mutex, misuse, crashed>>
       \/ \* 243-250: destroy the lock, close the file, free the structure
          /\ ptr[l] = "live" /\ file[l] # "null"
          /\ misuse' = misuse \cup Destroy(mutex[l]) \cup FClose(file[l])
                              \cup Free(mem[l])
          /\ mutex' = [mutex EXCEPT ![l] = "destroyed"]
          /\ file' = [file EXCEPT ![l] = "closed"]
          /\ mem' = [mem EXCEPT ![l] = "freed"]
          /\ ptr' = [ptr EXCEPT ![l] = "dangling"]
          /\ Ret(t, l, "close", 0, "ok")
          /\ UNCHANGED crashed
       \/ \* 240 on freed memory: the process dies
          /\ ptr[l] = "dangling"
          /\ crashed' = TRUE
          /\ UNCHANGED <<ptr, mem, file, mutex, misuse, pc, last, stepfail, reg, had,
                         lines, tmp, tmpat, tmpbuf, msg>>
       \/ \* 240 on freed memory reads the stale handle: 243-250 run again
          /\ ptr[l] = "dangling"
          /\ misuse' = misuse \cup Destroy(mutex[l]) \cup FClose(file[l])
                              \cup Free(mem[l])
          /\ crashed' = TRUE
          /\ Ret(t, l, "close", 0, "ok")
          /\ UNCHANGED <<ptr, mem, file, mutex>>
       \/ \* 240 on freed memory reads NULL
          /\ ptr[l] = "dangling"
          /\ Ret(t, l, "close", 0 - 1, "nofile")
          /\ UNCHANGED <<ptr, mem, file, mutex, misuse, crashed>>

Next ==
    \/ \E t \in Threads, l \in AllLogs, K \in TruncateChoices, len \in PathLens :
          log_init_open(t, l, K, len)
    \/ \E t \in Threads : log_init_lock(t)
    \/ \E t \in Threads : log_init_tmp(t)
    \/ \E t \in Threads : log_init_copy(t)
    \/ \E t \in Threads : log_init_close(t)
    \/ \E t \in Threads : log_init_remove(t)
    \/ \E t \in Threads : log_init_rename(t)
    \/ \E t \in Threads : log_init_reopen(t)
    \/ \E t \in Threads, l \in AllLogs, kind \in MsgKinds : log_write_check(t, l, kind)
    \/ \E t \in Threads : log_write_lock(t)
    \/ \E t \in Threads : log_write_append(t)
    \/ \E t \in Threads : log_write_load(t)
    \/ \E t \in Threads : log_write_count(t)
    \/ \E t \in Threads : log_write_tmp(t)
    \/ \E t \in Threads : log_write_copy(t)
    \/ \E t \in Threads : log_write_close(t)
    \/ \E t \in Threads : log_write_remove(t)
    \/ \E t \in Threads : log_write_rename(t)
    \/ \E t \in Threads : log_write_reopen(t)
    \/ \E t \in Threads, l \in AllLogs : log_count_lines(t, l)
    \/ \E t \in Threads, l \in AllLogs : log_close(t, l)

Spec == Init /\ [][Next]_vars

(***************************************************************************)
(* The scheduler lets every thread that is inside a call and can take its  *)
(* next step take it sooner or later; callers need not start new calls.    *)
(***************************************************************************)
Step(t) ==
    \/ log_init_lock(t) \/ log_init_tmp(t) \/ log_init_copy(t)
    \/ log_init_close(t) \/ log_init_remove(t) \/ log_init_rename(t)
    \/ log_init_reopen(t)
    \/ log_write_lock(t) \/ log_write_append(t) \/ log_write_load(t)
    \/ log_write_count(t) \/ log_write_tmp(t) \/ log_write_copy(t)
    \/ log_write_close(t) \/ log_write_remove(t) \/ log_write_rename(t)
    \/ log_write_reopen(t)

SpecFair == Spec /\ \A t \in Threads : WF_vars(Step(t))

\* Two LineLogs, each used by the threads of its own: odd threads call on
\* "a.log", even threads on "b.log".
LogOf(t) == IF t % 2 = 1 THEN "a.log" ELSE "b.log"

NextTwo ==
    \/ \E t \in Threads, K \in TruncateChoices, len \in PathLens :
          log_init_open(t, LogOf(t), K, len)
    \/ \E t \in Threads : log_init_lock(t)
    \/ \E t \in Threads : log_init_tmp(t)
    \/ \E t \in Threads : log_init_copy(t)
    \/ \E t \in Threads : log_init_close(t)
    \/ \E t \in Threads : log_init_remove(t)
    \/ \E t \in Threads : log_init_rename(t)
    \/ \E t \in Threads : log_init_reopen(t)
    \/ \E t \in Threads, kind \in MsgKinds : log_write_check(t, LogOf(t), kind)
    \/ \E t \in Threads : log_write_lock(t)
    \/ \E t \in Threads : log_write_append(t)
    \/ \E t \in Threads : log_write_load(t)
    \/ \E t \in Threads : log_write_count(t)
    \/ \E t \in Threads : log_write_tmp(t)
    \/ \E t \in Threads : log_write_copy(t)
    \/ \E t \in Threads : log_write_close(t)
    \/ \E t \in Threads : log_write_remove(t)
    \/ \E t \in Threads : log_write_rename(t)
    \/ \E t \in Threads : log_write_reopen(t)
    \/ \E t \in Threads : log_count_lines(t, LogOf(t))
    \/ \E t \in Threads : log_close(t, LogOf(t))

SpecTwo == InitTwo /\ [][NextTwo]_vars

(***************************************************************************)
(* The properties.                                                         *)
(***************************************************************************)
Quiet(l) == ~Busy(l) /\ ~crashed
Ready(l) == l \in active /\ ptr[l] = "live" /\ Quiet(l)
Bounded(l) == truncate_at[l] # Unbounded
Returned(l, op) == Quiet(l) /\ last.l = l /\ last.op = op
LastK(s, k) == SubSeq(s, Len(s) - k + 1, Len(s))
CritPcs == {"w_append", "w_load", "w_count", "w_tmp", "w_copy", "w_close",
            "w_remove", "w_rename", "w_reopen"}
PassPcs == {"w_copy", "w_close", "w_remove", "w_rename", "w_reopen",
            "i_copy", "i_close", "i_remove", "i_rename", "i_reopen"}
InCrit(l) == {t \in Threads : cur[t] = l /\ pc[t] \in CritPcs}
InPass(l) == {t \in Threads : cur[t] = l /\ pc[t] \in PassPcs}

(***************************************************************************)
(* C1.  A LineLog initialised on an empty file with a finite bound K:      *)
(* once more than K log_write calls have returned, all with success, the   *)
(* file holds exactly the records of the last K of them, in order.         *)
(***************************************************************************)
C1_LastKWrites ==
    \A l \in active :
        (Ready(l) /\ Bounded(l) /\ pre[l] = <<>> /\ allok[l]
            /\ Len(sess[l]) > truncate_at[l])
        => disk[l].data = LastK(sess[l], truncate_at[l])

(***************************************************************************)
(* C2.  After any operation has returned, with success or with an error,   *)
(* cached_lines is the number of lines in the file.                        *)
(***************************************************************************)
C2_CacheMatchesFile ==
    \A l \in active : Ready(l) => cached_lines[l] = Len(disk[l].data)

(***************************************************************************)
(* C3 as claimed.  With a finite bound, cached_lines does not exceed       *)
(* truncate_at after log_init or log_write has returned, on any return     *)
(* path.                                                                   *)
(***************************************************************************)
C3_BoundOnEveryReturn ==
    \A l \in active :
        (Ready(l) /\ Bounded(l) /\ last.l = l /\ last.op \in {"init", "write"})
        => cached_lines[l] <= truncate_at[l]

(***************************************************************************)
(* C3 as amended.  With a finite bound, cached_lines does not exceed       *)
(* truncate_at after log_init or log_write has returned success.           *)
(***************************************************************************)
C3_BoundOnSuccess ==
    \A l \in active :
        (Ready(l) /\ Bounded(l) /\ last.l = l /\ last.op \in {"init", "write"}
            /\ last.res = 0)
        => cached_lines[l] <= truncate_at[l]

\* A log_write that ran a truncation pass has returned success.
C3_Witness ==
    \E l \in active :
        /\ Ready(l) /\ Bounded(l) /\ last.l = l /\ last.op = "write" /\ last.res = 0
        /\ Len(sess[l]) > truncate_at[l]
        /\ cached_lines[l] = truncate_at[l]

(***************************************************************************)
(* C4.  With truncation disabled and any number of threads inside          *)
(* log_write, in every interleaving the file is what it was at log_init    *)
(* followed by one whole line per appended record, and cached_lines has    *)
(* grown by one for each writer that has counted its record; every         *)
(* log_write returns success.  Once the writers have returned, M writes    *)
(* have added exactly M lines and M to cached_lines.                       *)
(***************************************************************************)
C4_ConcurrentAppends ==
    \A l \in active :
        (ptr[l] = "live" /\ ~Initing(l) /\ ~crashed /\ ~Bounded(l))
        => /\ disk[l].data = pre[l] \o sess[l]
           /\ \A i \in 1 .. Len(sess[l]) : sess[l][i][2] \in {"whole", "long"}
           /\ cached_lines[l] = Len(FGetsAll(pre[l])) + Len(sess[l])
                 - Cardinality({t \in Threads :
                                   cur[t] = l /\ pc[t] \in {"w_load", "w_count"}})
           /\ (Returned(l, "write") => last.res = 0)

\* One writer has appended and holds the lock while another waits for it.
C4_Witness ==
    \E l \in active : \E t1, t2 \in Threads :
        /\ ptr[l] = "live" /\ ~Bounded(l) /\ cur[t1] = l /\ cur[t2] = l
        /\ pc[t1] = "w_count" /\ pc[t2] = "w_lock"
        /\ Len(sess[l]) >= 2

(***************************************************************************)
(* C5.  At most one thread is between the lock and the unlock of one       *)
(* LineLog, and it is the owner of the lock: while a truncation pass is    *)
(* reading, swapping or reopening the file no other writer is at its       *)
(* append, and no second pass is running.                                  *)
(***************************************************************************)
C5_PassIsAtomic ==
    \A l \in active :
        /\ Cardinality(InCrit(l)) <= 1
        /\ Cardinality(InPass(l)) <= 1
        /\ \A t \in InCrit(l) \cup InPass(l) : owner[l] = t

\* A pass is between the removal and the rename while another writer waits.
C5_Witness ==
    \E l \in active : \E t1, t2 \in Threads :
        /\ Bounded(l) /\ cur[t1] = l /\ cur[t2] = l
        /\ pc[t1] = "w_rename" /\ pc[t2] = "w_lock"

(***************************************************************************)
(* C6.  With truncation disabled, log_init on a file of n lines sets       *)
(* cached_lines to n, log_count_lines after N more writes returns n + N,   *)
(* no truncation pass runs and no line of the file is removed.             *)
(***************************************************************************)
C6_UnboundedCounts ==
    \A l \in active :
        (ptr[l] = "live" /\ ~Initing(l) /\ ~crashed /\ ~Bounded(l))
        => /\ (Returned(l, "init") /\ last.res = 0)
                 => cached_lines[l] = Len(pre[l])
           /\ Returned(l, "count") => last.res = Len(pre[l]) + Len(sess[l])
           /\ \A t \in Threads :
                 cur[t] = l => pc[t] \notin PassPcs \cup {"w_tmp", "i_tmp"}
           /\ disk[l].data = pre[l] \o sess[l]

(***************************************************************************)
(* C7.  log_init with a finite bound K on a file of n lines: with n > K    *)
(* the file then holds the last K of these lines in order and cached_lines *)
(* is K; with n <= K the file is unchanged and cached_lines is n.  The     *)
(* lock is free when log_init returns.                                     *)
(***************************************************************************)
C7_InitKeepsLastK ==
    \A l \in active :
        (Ready(l) /\ Bounded(l) /\ Returned(l, "init") /\ last.res = 0)
        => /\ owner[l] = 0
           /\ IF Len(pre[l]) > truncate_at[l]
              THEN /\ disk[l].data = LastK(pre[l], truncate_at[l])
                   /\ cached_lines[l] = truncate_at[l]
              ELSE /\ disk[l].data = pre[l]
                   /\ cached_lines[l] = Len(pre[l])

(***************************************************************************)
(* C8.  After log_write has returned an error because the temporary file   *)
(* could not be opened or the log could not be reopened, the lock is free  *)
(* and the handle is open, so that the next log_write is accepted.         *)
(***************************************************************************)
C8_UsableAfterPassFailure ==
    \A l \in active :
        (Ready(l) /\ Returned(l, "write") /\ last.res = 0 - 1
            /\ last.why \in {"tmp", "reopen"})
        => owner[l] = 0 /\ file[l] = "open"

(***************************************************************************)
(* C9.  A call of log_init or log_write in which the temporary file could  *)
(* not be opened, or the removal, the rename or the reopening failed,      *)
(* returns an error.                                                       *)
(***************************************************************************)
C9_StepFailureSurfaces ==
    (last.op \in {"init", "write"}
        /\ last.why \in {"tmp", "remove", "rename", "reopen"})
    => last.res = 0 - 1

(***************************************************************************)
(* C10.  After log_init has returned an error, whatever the branch, the    *)
(* caller's pointer is NULL, the structure is not allocated, the file is   *)
(* not open, the lock is neither held nor left initialised, and nothing    *)
(* was released twice: a lock that was created has been destroyed, a file  *)
(* that was opened has been closed once.                                   *)
(***************************************************************************)
C10_InitFailureUnwinds ==
    \A l \in active :
        (Returned(l, "init") /\ last.res = 0 - 1)
        => /\ ptr[l] = "null" /\ mem[l] # "live"
           /\ file[l] # "open" /\ owner[l] = 0 /\ mutex[l] # "init"
           /\ misuse = {}
           /\ last.why \in {"alloc", "path", "open", "mutex", "lock", "tmp", "reopen"}
           /\ last.why \in {"path", "open", "mutex", "lock", "tmp", "reopen"}
                 => mem[l] = "freed"
           /\ last.why \in {"lock", "tmp", "reopen"} => mutex[l] = "destroyed"
           /\ last.why \in {"mutex", "lock", "tmp"} => file[l] = "closed"
           /\ last.why \in {"open", "reopen"} => file[l] = "null"

\* log_init has failed at the reopen that follows the swap.
C10_Witness ==
    \E l \in active :
        Returned(l, "init") /\ last.res = 0 - 1 /\ last.why = "reopen"

(***************************************************************************)
(* C11.  log_close returns an error when the handle is absent or already   *)
(* closed, and on an initialised LineLog, in whatever state log_write left *)
(* it, one log_close releases the lock, the file handle and the structure; *)
(* a second log_close on the same handle returns the error and releases    *)
(* nothing a second time.                                                  *)
(***************************************************************************)
C11_CloseReleasesAll ==
    \A l \in active :
        (~Busy(l) /\ last.l = l /\ last.op = "close")
        => /\ misuse = {} /\ ~crashed
           /\ mem[l] # "live" /\ mutex[l] # "init" /\ file[l] # "open"
           /\ last.res = 0 => last.why = "ok" /\ ptr[l] = "dangling"
           /\ last.res # 0 => last.why \in {"nolog", "nofile"}

(***************************************************************************)
(* C12.  The temporary file exists only while a truncation pass is running *)
(* under the held lock: once log_init or log_write has returned, with      *)
(* success or with an error, and the process has not died, there is no     *)
(* temporary file.                                                         *)
(***************************************************************************)
C12_NoTmpBetweenCalls ==
    (~crashed /\ disk[TmpName].ex)
    => \E l \in active : \E t \in InPass(l) : owner[l] = t

(***************************************************************************)
(* C13.  A log_init whose path is as long as the maximum length or longer  *)
(* returns an error (InvalidPath, unless the allocation before the check   *)
(* failed), leaves the caller's pointer NULL and opens or creates no file: *)
(* the directory is what it was before the call.                           *)
(***************************************************************************)
C13_LongPathRejected ==
    [][\A t \in Threads, l \in AllLogs, K \in TruncateChoices, len \in PathLens :
          (len >= MAX_FILENAME_LENGTH /\ log_init_open(t, l, K, len))
          => /\ pc'[t] = "idle"
             /\ last'.op = "init" /\ last'.res = 0 - 1
             /\ faults' = faults => last'.why = "path"
             /\ ptr'[l] = "null" /\ mem'[l] # "live" /\ file'[l] # "open"
             /\ disk' = disk]_vars

\* A log_init on a file that does not exist was rejected for its path.
C13_Witness ==
    \E l \in active :
        /\ Returned(l, "init") /\ last.res = 0 - 1 /\ last.why = "path"
        /\ ptr[l] = "null" /\ ~disk[l].ex

(***************************************************************************)
(* C14.  Under a finite bound K, a log_write made when the line count is K *)
(* (the file holds K lines and cached_lines is K) runs one truncation pass *)
(* to its end and returns with the count at exactly K again, in the file   *)
(* and in cached_lines; a log_write whose count after the append does not  *)
(* exceed K runs no pass.  A call runs one pass at most: it returns from   *)
(* the count test (no pass), from the failed opening of the temporary file *)
(* (no pass either) or from the reopening that ends the pass.              *)
(***************************************************************************)
C14_ThresholdPass ==
    [][\A t \in Threads :
          LET l == cur[t]
              K == truncate_at[l]
          IN  (/\ pc[t] \in {"w_count", "w_tmp", "w_reopen"} /\ pc'[t] = "idle"
               /\ K # Unbounded)
              => /\ (had[t].c = K /\ had[t].n = K)
                    => /\ pc[t] = "w_reopen"
                       /\ cached_lines'[l] = K
                       /\ Len(disk'[l].data) = K
                 /\ (had[t].c + 1 <= K) => pc[t] = "w_count"]_vars

(***************************************************************************)
(* C15.  Whenever the lock of an initialised LineLog is free, its file     *)
(* handle is open: the handle is closed or NULL only inside a truncation   *)
(* pass, under the held lock, whatever the return path of log_write.       *)
(***************************************************************************)
C15_HandleOpenOutsideLock ==
    \A l \in active :
        (ptr[l] = "live" /\ ~Initing(l) /\ ~crashed /\ owner[l] = 0)
        => file[l] = "open"

(***************************************************************************)
(* C16.  In every interleaving of log_write calls no writer is at its      *)
(* append (fprintf, fflush, fsync on log->file, lines 164-166) while       *)
(* log->file is NULL, also when the reopen of another writer's pass failed *)
(* after this writer's check of line 139 and before it took the lock.      *)
(***************************************************************************)
C16_NoAppendOnNullHandle ==
    \A t \in Threads : pc[t] = "w_append" => file[cur[t]] # "null"

InWrite(t) == pc[t] \in {"w_lock"} \cup CritPcs

(***************************************************************************)
(* C17.  A log_write that has taken the lock releases it exactly once      *)
(* before it returns: a thread outside a call holds no lock and no unlock  *)
(* is made by a thread that is not the owner.  Hence, with every thread    *)
(* scheduled fairly, every log_write call returns.                         *)
(***************************************************************************)
C17_EveryWriteReturns ==
    /\ [](\A t \in Threads :
            /\ pc[t] = "idle" => \A l \in AllLogs : owner[l] # t
            /\ "unlock" \notin misuse)
    /\ \A t \in Threads : InWrite(t) ~> pc[t] = "idle"

HoldsWindow(data, w) ==
    \E i \in 0 .. (Len(data) - Len(w)) : SubSeq(data, i + 1, i + Len(w)) = w

(***************************************************************************)
(* C18.  At every step of a truncation pass, from the opening of the       *)
(* temporary file to the reopening of the log, the lines the pass is meant *)
(* to keep (the last truncate_at lines of the file the pass started on)    *)
(* stand whole and in order in the log file or in the temporary file on    *)
(* disk; the log file is removed only when the temporary file has been     *)
(* closed and holds them.                                                  *)
(***************************************************************************)
C18_WindowSurvivesPass ==
    \A l \in active : \A t \in InPass(l) :
        ~crashed =>
        /\ \/ HoldsWindow(disk[l].data, had[t].w)
           \/ HoldsWindow(disk[TmpName].data, had[t].w)
        /\ pc[t] \in {"w_remove", "i_remove"}
              => tmp[t] = "closed" /\ HoldsWindow(disk[TmpName].data, had[t].w)

Ids(data) == {data[i][1] : i \in 1 .. Len(data)}

(***************************************************************************)
(* C19.  Two LineLogs on different paths, each with its own lock and a     *)
(* finite bound: in every interleaving of their calls, once the calls have *)
(* returned each file holds nothing but lines of records that were in it   *)
(* at its log_init or were written to its own LineLog since, and none of   *)
(* its own last truncate_at records is missing from it.                    *)
(***************************************************************************)
C19_LogsDoNotInterfere ==
    (active = AllLogs /\ ~crashed /\ \A t \in Threads : pc[t] = "idle")
    => \A l \in active :
          (ptr[l] = "live" /\ Bounded(l))
          => /\ Ids(disk[l].data) \subseteq Ids(pre[l] \o sess[l])
             /\ Ids(Window(sess[l], truncate_at[l])) \subseteq Ids(disk[l].data)

(***************************************************************************)
(* C20.  Under a finite bound K, when the last call that returned was a    *)
(* log_write that failed at the opening of the temporary file (its record  *)
(* is in the file and cached_lines is above K), whatever failed before it, *)
(* a log_write whose truncation pass goes through and which returns        *)
(* success leaves in the file exactly the K most recent records, in order, *)
(* the records of the failed calls counted among the records, and          *)
(* cached_lines = K.                                                       *)
(***************************************************************************)
C20_BoundRestoredAfterFailure ==
    [][\A t \in Threads :
          LET l == cur[t]
              K == truncate_at[l]
          IN  (/\ pc[t] = "w_reopen" /\ pc'[t] = "idle"
               /\ last'.res = 0 /\ last'.why = "ok"
               /\ last.l = l /\ last.op = "write" /\ last.res = 0 - 1
               /\ last.why = "tmp" /\ had[t].c > K)
              => /\ cached_lines'[l] = K
                 /\ disk'[l].data = Window(pre[l] \o sess[l], K)]_vars

=============================================================================
